---- MODULE Spec2Model ----
(***************************************************************************)
(* Model of run_all_testbenches_lib.py: the VUnit driver script.           *)
(*                                                                         *)
(* File names, directory names and paths are sequences of one-character    *)
(* strings, so that str.endswith, the substring test `in` and os.path.join *)
(* are computed character by character.  Flags and option keys, which the  *)
(* code only builds, compares and passes on, are TLA+ strings.             *)
(***************************************************************************)
EXTENDS Integers, Sequences, FiniteSets, TLC

VARIABLES
    tree,        \* the directory tree on disk: path -> [ok, dirs, files],
                 \* dirs and files the sets of names the directory holds
    environ,     \* the process environment: XILINX_VIVADO, VUNIT_MODELSIM_PATH
    existing,    \* the paths for which os.path.exists answers True
    sys_argv,    \* sys.argv of the process
    script_dir,  \* Path(__file__).resolve().parent
    framework,   \* how the framework answers: add_source_file, vu.main()
    call,        \* the invocation: which function, with which arguments
    pc,          \* position of the invocation
    ret,         \* what the invoked function returned (or raised)
    loc,         \* main's locals: args, source_files, glbl_path
    vu,          \* the calls made on the framework objects, in order
    stdout,      \* what was printed, in order
    exit_status, \* the exit status of the process, once it has exited
    prev         \* the framework calls of the previous configuration run

vars == <<tree, environ, existing, sys_argv, script_dir, framework,
          call, pc, ret, loc, vu, stdout, exit_status, prev>>

\* Where the code holds a str or None (the result of getenv, xunit_xml,
\* glbl_path), None is the value below and the str s is Str(s): the str
\* 'None' is not None.
None == [some |-> FALSE, str |-> ""]
Str(s) == [some |-> TRUE, str |-> s]

Range(s) == {s[i] : i \in 1..Len(s)}

(***************************************************************************)
(* str methods                                                             *)
(***************************************************************************)

\* s[i:j] of Python, 0-based, for 0 <= i <= j <= len(s).
Slice(s, i, j) == SubSeq(s, i + 1, j)

\* s.endswith(suffix) for one suffix.
EndsWith1(s, suffix) ==
    /\ Len(suffix) <= Len(s)
    /\ Slice(s, Len(s) - Len(suffix), Len(s)) = suffix

\* s.endswith(suffixes) for a tuple of suffixes: any of them.
EndsWith(s, suffixes) ==
    \E k \in 1..Len(suffixes) : EndsWith1(s, suffixes[k])

\* sub in s: sub occurs in s as a contiguous run (the empty string always does).
Contains(s, sub) ==
    \E i \in 0..(Len(s) - Len(sub)) : Slice(s, i, i + Len(sub)) = sub

\* x in lst, for a list.
InList(x, lst) == \E k \in 1..Len(lst) : lst[k] = x

\* os.path.join(path, name) for a relative name (POSIX): one separator between
\* the two unless path is empty or already ends with one.
join(path, name) ==
    IF path = <<>> THEN name
    ELSE IF path[Len(path)] = "/" THEN path \o name
    ELSE path \o <<"/">> \o name

(***************************************************************************)
(* os.walk(top), as discover_hdl_files calls it: top-down, onerror=None,   *)
(* followlinks=False.  A directory the filesystem cannot list (unreadable, *)
(* or not there) makes scandir fail; with onerror None the error is        *)
(* dropped and the directory contributes nothing.  The walk runs on a      *)
(* listing of the tree: path -> [ok, dirs, files] with dirs and files the  *)
(* names in the order scandir hands them over.                             *)
(***************************************************************************)

RECURSIVE Perms(_)
\* The orders in which the names of S may be listed.
Perms(S) ==
    IF S = {} THEN {<<>>}
    ELSE UNION {{<<x>> \o q : q \in Perms(S \ {x})} : x \in S}

RECURSIVE ListingsOf(_, _)
\* The listings of the directories ds of the tree t: scandir promises no
\* order, so every order of every directory's entries is one.
ListingsOf(t, ds) ==
    IF ds = {} THEN {[d \in {} |-> <<>>]}
    ELSE LET d == CHOOSE x \in ds : TRUE
         IN  { (d :> [ok |-> t[d].ok, dirs |-> qd, files |-> qf]) @@ rest :
                   qd \in Perms(t[d].dirs), qf \in Perms(t[d].files),
                   rest \in ListingsOf(t, ds \ {d}) }

Listings(t) == ListingsOf(t, DOMAIN t)

Listable(t, top) == top \in DOMAIN t /\ t[top].ok

RECURSIVE walk_from(_, _, _)
RECURSIVE walk_dirs(_, _, _, _)

\* The (path, dirs, files) triples of the walk below top, or the error raised.
walk_from(t, top, onerror) ==
    IF ~Listable(t, top)
    THEN [raised |-> onerror = "raise", triples |-> <<>>]
    ELSE LET below == walk_dirs(t, top, t[top].dirs, onerror)
         IN  [raised  |-> below.raised,
              triples |-> <<[path |-> top, dirs |-> t[top].dirs,
                             files |-> t[top].files]>> \o below.triples]

\* The walks of the sub-directories `names` of top, one after the other.
walk_dirs(t, top, names, onerror) ==
    IF names = <<>> THEN [raised |-> FALSE, triples |-> <<>>]
    ELSE LET first == walk_from(t, join(top, Head(names)), onerror)
         IN  IF first.raised THEN first
             ELSE LET rest == walk_dirs(t, top, Tail(names), onerror)
                  IN  [raised  |-> rest.raised,
                       triples |-> first.triples \o rest.triples]

\* Mutant of walk: the sub-directory names are handed back among the files.
walk_dirs_as_files(t, top) ==
    LET w == walk_from(t, top, "ignore")
    IN  [w EXCEPT !.triples =
            [k \in 1..Len(w.triples) |->
                [w.triples[k] EXCEPT !.files = w.triples[k].dirs \o @]]]

\* walk(root_dir): all defaults.
walk(t, top) == walk_from(t, top, "ignore")

(***************************************************************************)
(* discover_hdl_files                                                      *)
(***************************************************************************)

\* Mutant of keep: the ignore_pattern test is missing.
keep_no_ignore(file, extensions, ignore_pattern, excluded_list) ==
    /\ EndsWith(file, extensions)
    /\ ~InList(file, excluded_list)

\* The condition of the comprehension.
keep(file, extensions, ignore_pattern, excluded_list) ==
    /\ EndsWith(file, extensions)
    /\ ~Contains(file, ignore_pattern)
    /\ ~InList(file, excluded_list)

RECURSIVE select(_, _, _, _, _)
\* [join(path, file) for file in files if keep(file)], in the order of files.
select(path, files, extensions, ignore_pattern, excluded_list) ==
    IF files = <<>> THEN <<>>
    ELSE (IF keep(Head(files), extensions, ignore_pattern, excluded_list)
          THEN <<join(path, Head(files))>> ELSE <<>>)
         \o select(path, Tail(files), extensions, ignore_pattern, excluded_list)

RECURSIVE collect(_, _, _, _)
\* The comprehension over the triples of the walk.
collect(triples, extensions, ignore_pattern, excluded_list) ==
    IF triples = <<>> THEN <<>>
    ELSE select(Head(triples).path, Head(triples).files,
                extensions, ignore_pattern, excluded_list)
         \o collect(Tail(triples), extensions, ignore_pattern, excluded_list)

discover_hdl_files(t, root_dir, extensions, ignore_pattern, excluded_list) ==
    LET w == walk(t, root_dir)
    IN  IF w.raised THEN [raised |-> TRUE, value |-> <<>>]
        ELSE [raised |-> FALSE,
              value  |-> collect(w.triples, extensions, ignore_pattern,
                                 excluded_list)]

(***************************************************************************)
(* find_xilinx_glbl                                                        *)
(***************************************************************************)

\* os.getenv(name, default): the value, or default when the variable is unset.
getenv(env, name, default) == IF name \in DOMAIN env THEN env[name] ELSE default

\* Truth value of a str or None: None and "" are false.
Truthy(o) == o.some /\ o.str # ""

common_paths ==
    << "C:/Xilinx/Vivado/2023.2/data/verilog/src/glbl.v",
       "C:/Xilinx/Vivado/2023.1/data/verilog/src/glbl.v",
       "C:/Xilinx/Vivado/2024.1/data/verilog/src/glbl.v",
       "/opt/xilinx/vivado/2023.2/data/verilog/src/glbl.v",
       "/opt/xilinx/vivado/2023.1/data/verilog/src/glbl.v",
       "/opt/xilinx/vivado/2024.1/data/verilog/src/glbl.v",
       "/opt/xilinx/vivado/data/vhdl/src/glbl.v" >>

\* f"{xilinx_vivado}/data/verilog/src/glbl.v"
glbl_under(xilinx_vivado) == xilinx_vivado \o "/data/verilog/src/glbl.v"

\* Mutant of search_paths: the environment's path is tried last.
search_paths_env_last(env) ==
    LET xilinx_vivado == getenv(env, "XILINX_VIVADO", None)
    IN  common_paths \o
        (IF Truthy(xilinx_vivado) THEN <<glbl_under(xilinx_vivado.str)>> ELSE <<>>)

\* search_paths as built before the loop: the environment's path first.
search_paths(env) ==
    LET xilinx_vivado == getenv(env, "XILINX_VIVADO", None)
    IN  (IF Truthy(xilinx_vivado) THEN <<glbl_under(xilinx_vivado.str)>> ELSE <<>>)
        \o common_paths

RECURSIVE first_existing(_, _)
\* The loop: the first path that exists, or None.
first_existing(paths, fs) ==
    IF paths = <<>> THEN None
    ELSE IF Head(paths) \in fs THEN Str(Head(paths))
    ELSE first_existing(Tail(paths), fs)

find_xilinx_glbl(env, fs) == first_existing(search_paths(env), fs)

(***************************************************************************)
(* The inputs: names, trees, environments                                  *)
(***************************************************************************)

a_vhd      == <<"a", ".", "v", "h", "d">>
b_vhdl     == <<"b", ".", "v", "h", "d", "l">>
c_v        == <<"c", ".", "v">>
backup_vhd == <<"b", "a", "c", "k", "u", "p", "~", ".", "v", "h", "d">>
skip_vhd   == <<"s", "k", "i", "p", ".", "v", "h", "d">>
avhd       == <<"a", "v", "h", "d">>

dot_vhd    == <<".", "v", "h", "d">>
dot_vhdl   == <<".", "v", "h", "d", "l">>
dot_v      == <<".", "v">>
tilde      == <<"~">>

\* The file names of the trees.
FileNames == {a_vhd, b_vhdl, c_v, backup_vhd, skip_vhd, avhd}

Root  == <<".">>
SubD  == join(Root, <<"s", "u", "b">>)
DeepD == join(SubD, <<"x", ".", "v", "h", "d">>)
DirPaths == {Root, SubD, DeepD}

\* At most this many files in a generated tree.
MaxFiles == 2

\* The tree ./sub/x.vhd/ with the files `placed` (pairs <<directory, name>>)
\* and the directories of `locked` unreadable.
MakeTree(placed, locked) ==
    [d \in DirPaths |->
        [ok    |-> d \notin locked,
         dirs  |-> IF d = Root THEN { <<"s", "u", "b">> }
                   ELSE IF d = SubD THEN { <<"x", ".", "v", "h", "d">> }
                   ELSE {},
         files |-> {n \in FileNames : <<d, n>> \in placed}]]

Placements ==
    {P \in SUBSET (DirPaths \X FileNames) : Cardinality(P) <= MaxFiles}

\* The tree of the specification's example: the five files in one directory.
ExampleTree ==
    MakeTree({Root} \X {a_vhd, b_vhdl, c_v, backup_vhd, skip_vhd}, {})

\* A root directory with nothing in it.
EmptyRoot == [d \in {Root} |-> [ok |-> TRUE, dirs |-> {}, files |-> {}]]

Trees ==
    {MakeTree(P, L) : P \in Placements, L \in {{}} \cup {{d} : d \in DirPaths}}
    \cup {ExampleTree, EmptyRoot}

ExtensionChoices ==
    { <<dot_vhd, dot_vhdl, dot_v>>, <<dot_vhd, dot_vhdl>>, <<dot_v>>, <<>> }
IgnoreChoices   == { tilde, <<>>, <<"a">> }
ExcludedChoices == { <<>>, <<skip_vhd>>, <<a_vhd, skip_vhd>> }

(***************************************************************************)
(* setup_vunit_environment                                                 *)
(***************************************************************************)

\* lst[1:]
DropFirst(lst) == SubSeq(lst, 2, Len(lst))

\* Mutant of vunit_args: the pattern is appended even when it is "**".
vunit_args_no_default_check(argv, testbench_glob, gui_enabled, compile_only, clean_run, debug, xunit_xml) ==
    DropFirst(argv)
    \o <<"-p", "1">>
    \o <<testbench_glob>>
    \o (IF gui_enabled THEN <<"--gui">> ELSE <<>>)
    \o (IF compile_only THEN <<"--compile">> ELSE <<>>)
    \o (IF clean_run THEN <<"--clean">> ELSE <<>>)
    \o (IF debug THEN <<"--log-level=debug">> ELSE <<>>)
    \o (IF Truthy(xunit_xml) THEN <<"--xunit-xml", xunit_xml.str>> ELSE <<>>)

\* args as handed to VUnit.from_argv.
vunit_args(argv, testbench_glob, gui_enabled, compile_only, clean_run, debug, xunit_xml) ==
    DropFirst(argv)
    \o <<"-p", "1">>
    \o (IF testbench_glob # "**" THEN <<testbench_glob>> ELSE <<>>)
    \o (IF gui_enabled THEN <<"--gui">> ELSE <<>>)
    \o (IF compile_only THEN <<"--compile">> ELSE <<>>)
    \o (IF clean_run THEN <<"--clean">> ELSE <<>>)
    \o (IF debug THEN <<"--log-level=debug">> ELSE <<>>)
    \o (IF Truthy(xunit_xml) THEN <<"--xunit-xml", xunit_xml.str>> ELSE <<>>)

\* One call on a framework object, as the log of calls records it.
Call(op, key, kind, val, allow_empty) ==
    [op |-> op, key |-> key, kind |-> kind, val |-> val,
     allow_empty |-> allow_empty]

\* The framework calls of setup_vunit_environment.
setup_calls(args) ==
    << Call("from_argv", "argv", "list", args, FALSE),
       Call("add_vhdl_builtins", "", "none", <<>>, FALSE),
       Call("add_osvvm", "", "none", <<>>, FALSE) >>

(***************************************************************************)
(* configure_compile_options, configure_simulation_options                 *)
(***************************************************************************)

nvc_global_options(use_xilinx_libs, use_intel_altera_libs) ==
    (IF use_xilinx_libs
     THEN <<"-L", "unisim", "-L", "unimacro", "-L", "unifast">> ELSE <<>>)
    \o (IF use_intel_altera_libs THEN <<"-L", "altera_mf">> ELSE <<>>)

\* The framework calls of configure_compile_options.
compile_option_calls(use_xilinx_libs, use_intel_altera_libs) ==
    LET global == nvc_global_options(use_xilinx_libs, use_intel_altera_libs)
    IN  << Call("set_compile_option", "nvc.a_flags", "list", <<"--relaxed">>, FALSE) >>
        \o (IF global # <<>>
            THEN << Call("set_compile_option", "nvc.global_flags", "list", global, FALSE) >>
            ELSE <<>>)

Digit(n) ==
    CASE n = 0 -> "0" [] n = 1 -> "1" [] n = 2 -> "2" [] n = 3 -> "3"
      [] n = 4 -> "4" [] n = 5 -> "5" [] n = 6 -> "6" [] n = 7 -> "7"
      [] n = 8 -> "8" [] n = 9 -> "9"

RECURSIVE IntStr(_)
\* str(n) for an int n >= 0.
IntStr(n) == IF n < 10 THEN Digit(n) ELSE IntStr(n \div 10) \o Digit(n % 10)

\* str(timeout_ms): an int prints its digits, a float with one decimal place
\* (held as [float, whole, tenth]) prints "whole.tenth".
str(x) ==
    IF x.float THEN IntStr(x.whole) \o "." \o IntStr(x.tenth)
    ELSE IntStr(x.whole)

questa_base == <<"q", "u", "e", "s", "t", "a", "_", "b", "a", "s", "e">>

\* Mutant of modelsim_simulation_options: VUNIT_MODELSIM_PATH is compared with
\* "questa_base" instead of searched for it.
modelsim_simulation_options_questa_eq(env, use_xilinx_libs, use_intel_altera_libs) ==
    <<"-t 1ps", "-voptargs=+acc">>
    \o (IF use_intel_altera_libs
        THEN <<"-L altera_mf_ver", "-L altera_lnsim_ver", "-L lpm_ver">> ELSE <<>>)
    \o (IF use_xilinx_libs
        THEN <<"-L unisims_ver", "-L unimacro_ver", "-L xpm", "-L secureip", "glbl">>
        ELSE <<>>)
    \o (IF getenv(env, "VUNIT_MODELSIM_PATH", <<>>) = questa_base
        THEN <<"-qbase_tune", "-printsimstats", "-simstats">> ELSE <<>>)

\* modelsim_simulation_options as handed to set_sim_option.
modelsim_simulation_options(env, use_xilinx_libs, use_intel_altera_libs) ==
    <<"-t 1ps", "-voptargs=+acc">>
    \o (IF use_intel_altera_libs
        THEN <<"-L altera_mf_ver", "-L altera_lnsim_ver", "-L lpm_ver">> ELSE <<>>)
    \o (IF use_xilinx_libs
        THEN <<"-L unisims_ver", "-L unimacro_ver", "-L xpm", "-L secureip", "glbl">>
        ELSE <<>>)
    \o (IF Contains(getenv(env, "VUNIT_MODELSIM_PATH", <<>>), questa_base)
        THEN <<"-qbase_tune", "-printsimstats", "-simstats">> ELSE <<>>)

\* f"{current_directory_path}\\find_wave_file.do"
wave_do_path(dir) == dir \o "\\find_wave_file.do"

\* The framework calls of configure_simulation_options.
simulation_option_calls(env, dir, timeout_ms, use_xilinx_libs, use_intel_altera_libs) ==
    << Call("set_generic", "SIMULATION_TIMEOUT_IN_MS", "str", <<str(timeout_ms)>>, TRUE),
       Call("set_sim_option", "modelsim.vsim_flags", "list",
            modelsim_simulation_options(env, use_xilinx_libs, use_intel_altera_libs),
            FALSE),
       Call("set_sim_option", "disable_ieee_warnings", "bool", <<"True">>, FALSE),
       Call("set_sim_option", "modelsim.init_file.gui", "str", <<wave_do_path(dir)>>, TRUE) >>

(***************************************************************************)
(* The invocations.  A caller imports the module and calls one of its      *)
(* functions, or the file is run as a script (the __main__ guard calls     *)
(* main() with every default).  call.fn names the function; pc is the      *)
(* statement about to run.                                                 *)
(***************************************************************************)

\* Forwarded command-line arguments: at most this many after the program name.
MaxArgv == 2

ArgPool == {"-v", "--clean", "lib.tb_a*"}

RECURSIVE SeqsUpTo(_, _)
\* The sequences over S of length at most n.
SeqsUpTo(S, n) ==
    IF n = 0 THEN {<<>>}
    ELSE LET shorter == SeqsUpTo(S, n - 1)
         IN  shorter \cup {Append(q, x) : q \in shorter, x \in S}

\* sys.argv: empty (an embedded interpreter), or the program name and its
\* arguments.
ArgvChoices == {<<>>} \cup {<<"run.py">> \o q : q \in SeqsUpTo(ArgPool, MaxArgv)}

NoEnv == [k \in {} |-> <<>>]

XilinxVivadoChoices ==
    {"", "None", "C:/Xilinx/Vivado/2023.2", "/opt/Xilinx/Vivado/2023.2", "/tools/Vivado"}

\* Every path find_xilinx_glbl may look at under these environments.
GlblCandidates ==
    Range(common_paths) \cup {glbl_under(x) : x \in XilinxVivadoChoices}

ModelsimPathChoices ==
    { <<>>, questa_base,
      <<"/", "o", "p", "t", "/", "q", "u", "e", "s", "t", "a", "_", "b", "a", "s", "e", "/", "b", "i", "n">>,
      <<"/", "o", "p", "t", "/", "q", "u", "e", "s", "t", "a", "/", "b", "i", "n">>,
      <<"/", "o", "p", "t", "/", "m", "o", "d", "e", "l", "s", "i", "m">> }

ScriptDirChoices == {"/home/user/hdl", "C:\\hdl"}

TimeoutChoices ==
    { [float |-> TRUE,  whole |-> 0,  tenth |-> 5],
      [float |-> FALSE, whole |-> 1,  tenth |-> 0],
      [float |-> TRUE,  whole |-> 10, tenth |-> 0] }

default_timeout_ms == [float |-> TRUE, whole |-> 0, tenth |-> 5]

\* main(): every parameter at its default, as the __main__ guard calls it.
main_defaults ==
    [fn |-> "main", as_script |-> TRUE, path |-> Root, tb_pattern |-> "**",
     timeout_ms |-> default_timeout_ms, gui |-> FALSE, compile_only |-> FALSE,
     clean |-> FALSE, debug |-> FALSE, use_xilinx_libs |-> FALSE,
     use_intel_altera_libs |-> FALSE, excluded_list |-> <<>>,
     xunit_xml |-> None]

\* main(...) as an importing script calls it.
MainCalls ==
    {main_defaults} \cup
    { [main_defaults EXCEPT !.as_script = FALSE, !.tb_pattern = tb, !.gui = g,
                            !.use_xilinx_libs = x, !.use_intel_altera_libs = i,
                            !.excluded_list = e]
        : tb \in {"**", "tb_*"}, g \in BOOLEAN, x \in BOOLEAN, i \in BOOLEAN,
          e \in {<<>>, <<skip_vhd>>} }

\* How the framework will answer in this run: whether lib.add_source_file
\* raises, and whether vu.main() returns (<<>>) or raises SystemExit(code).
FrameworkChoices ==
    [add_source_file_raises : BOOLEAN, main_exit : {<<>>, <<0>>, <<1>>}]

Framework0 == [add_source_file_raises |-> FALSE, main_exit |-> <<0>>]

NoLocals == [k \in {} |-> <<>>]
NoReturn == [raised |-> FALSE, value |-> <<>>]

\* Everything but the inputs of the invocation, before its first statement.
Fresh ==
    /\ ret = NoReturn
    /\ loc = NoLocals
    /\ vu = <<>>
    /\ stdout = <<>>
    /\ exit_status = <<>>
    /\ prev = <<>>

\* A caller calls discover_hdl_files(root_dir, extensions, ignore_pattern,
\* excluded_list) on some tree.
InitDiscover ==
    /\ tree \in Trees
    /\ call \in [fn : {"discover_hdl_files"}, root_dir : {Root},
                 extensions : ExtensionChoices, ignore_pattern : IgnoreChoices,
                 excluded_list : ExcludedChoices]
    /\ pc = "discover"
    /\ environ = NoEnv /\ existing = {} /\ sys_argv = <<"run.py">>
    /\ script_dir = "/home/user/hdl" /\ framework = Framework0
    /\ Fresh

\* A caller calls find_xilinx_glbl() in some environment, on some disk.
InitFindGlbl ==
    /\ environ \in {NoEnv} \cup {"XILINX_VIVADO" :> Str(x) : x \in XilinxVivadoChoices}
    /\ existing \in SUBSET GlblCandidates
    /\ call = [fn |-> "find_xilinx_glbl"]
    /\ pc = "find_glbl"
    /\ tree = ExampleTree /\ sys_argv = <<"run.py">>
    /\ script_dir = "/home/user/hdl" /\ framework = Framework0
    /\ Fresh

\* A caller calls setup_vunit_environment(...) under some command line.
InitSetup ==
    /\ sys_argv \in ArgvChoices
    /\ call \in [fn : {"setup_vunit_environment"},
                 testbench_glob : {"**", "tb_*", ""}, gui_enabled : BOOLEAN,
                 compile_only : BOOLEAN, clean_run : BOOLEAN, debug : BOOLEAN,
                 xunit_xml : {None, Str(""), Str("None"), Str("out.xml")}]
    /\ pc = "setup"
    /\ tree = ExampleTree /\ environ = NoEnv /\ existing = {}
    /\ script_dir = "/home/user/hdl" /\ framework = Framework0
    /\ Fresh

\* A caller calls configure_compile_options(vu, x, i) and then
\* configure_simulation_options(vu, timeout_ms, x, i) on a fresh project.
InitConfigure ==
    /\ environ \in {NoEnv} \cup {"VUNIT_MODELSIM_PATH" :> m : m \in ModelsimPathChoices}
    /\ script_dir \in ScriptDirChoices
    /\ call \in [fn : {"configure"}, timeout_ms : TimeoutChoices,
                 use_xilinx_libs : BOOLEAN, use_intel_altera_libs : BOOLEAN]
    /\ pc = "compile_opts"
    /\ tree = ExampleTree /\ existing = {} /\ sys_argv = <<"run.py">>
    /\ framework = Framework0
    /\ Fresh

\* main(...) is called by an importing script, or by the __main__ guard.
InitMain ==
    /\ call \in MainCalls
    /\ tree \in {MakeTree({Root} \X {a_vhd, backup_vhd, skip_vhd}, {}),
                  MakeTree({}, {}), MakeTree({<<SubD, a_vhd>>}, {SubD})}
    /\ environ \in
         {NoEnv, "XILINX_VIVADO" :> Str("/tools/Vivado"),
          "VUNIT_MODELSIM_PATH" :> questa_base,
          ("XILINX_VIVADO" :> Str("/tools/Vivado")) @@ ("VUNIT_MODELSIM_PATH" :> questa_base)}
    /\ existing \in {{}, {glbl_under("/tools/Vivado")}, {common_paths[1]}}
    /\ framework \in FrameworkChoices
    /\ pc = "setup"
    /\ sys_argv = <<"run.py">> /\ script_dir = "/home/user/hdl"
    /\ Fresh

Init == InitDiscover \/ InitFindGlbl \/ InitSetup \/ InitConfigure \/ InitMain

InMain == call.fn = "main"

\* The arguments main passes to setup_vunit_environment, or the caller's own.
setup_params ==
    IF InMain
    THEN [testbench_glob |-> call.tb_pattern, gui_enabled |-> call.gui,
          compile_only |-> call.compile_only, clean_run |-> call.clean,
          debug |-> call.debug, xunit_xml |-> call.xunit_xml]
    ELSE call

\* The arguments main passes to discover_hdl_files, or the caller's own.
discover_params ==
    IF InMain
    THEN [root_dir |-> call.path, extensions |-> <<dot_vhd, dot_vhdl>>,
          ignore_pattern |-> tilde, excluded_list |-> call.excluded_list]
    ELSE call

\* setup_vunit_environment, whole.
Setup ==
    /\ pc = "setup"
    /\ LET a == setup_params
           args == vunit_args(sys_argv, a.testbench_glob, a.gui_enabled,
                              a.compile_only, a.clean_run, a.debug, a.xunit_xml)
       IN  vu' = vu \o setup_calls(args)
    /\ IF InMain
       THEN pc' = "add_library" /\ UNCHANGED ret
       ELSE pc' = "returned" /\ ret' = [raised |-> FALSE, value |-> "vu"]
    /\ UNCHANGED <<tree, environ, existing, sys_argv, script_dir, framework,
                   call, loc, stdout, exit_status, prev>>

\* lib = vu.add_library("vunit_library")
AddLibrary ==
    /\ pc = "add_library"
    /\ vu' = Append(vu, Call("add_library", "vunit_library", "none", <<>>, FALSE))
    /\ pc' = "discover"
    /\ UNCHANGED <<tree, environ, existing, sys_argv, script_dir, framework,
                   call, ret, loc, stdout, exit_status, prev>>

\* discover_hdl_files, whole: called directly, or by main for source_files.
Discover ==
    /\ pc = "discover"
    /\ \E listing \in Listings(tree) :
       LET a == discover_params
           r == discover_hdl_files(listing, a.root_dir, a.extensions,
                                   a.ignore_pattern, a.excluded_list)
       IN  IF InMain /\ ~r.raised
           THEN /\ loc' = ("source_files" :> r.value) @@ loc
                /\ pc' = "add_sources"
                /\ UNCHANGED ret
           ELSE /\ ret' = r
                /\ pc' = IF r.raised THEN "raised" ELSE "returned"
                /\ UNCHANGED loc
    /\ UNCHANGED <<tree, environ, existing, sys_argv, script_dir, framework,
                   call, vu, stdout, exit_status, prev>>

\* Mutant of AddSourceFiles: vu.main() is called right after, before the
\* options are configured.
AddSourceFiles_then_main ==
    /\ pc = "add_sources"
    /\ vu' = Append(vu, Call("add_source_files", "", "paths", loc.source_files, TRUE))
    /\ pc' = "vu_main"
    /\ UNCHANGED <<tree, environ, existing, sys_argv, script_dir, framework,
                   call, ret, loc, stdout, exit_status, prev>>

\* lib.add_source_files(source_files, allow_empty=True), then the test of
\* use_xilinx_libs.
AddSourceFiles ==
    /\ pc = "add_sources"
    /\ vu' = Append(vu, Call("add_source_files", "", "paths", loc.source_files, TRUE))
    /\ pc' = IF call.use_xilinx_libs THEN "find_glbl" ELSE "compile_opts"
    /\ UNCHANGED <<tree, environ, existing, sys_argv, script_dir, framework,
                   call, ret, loc, stdout, exit_status, prev>>

\* find_xilinx_glbl, whole: called directly, or by main for glbl_path.
FindGlbl ==
    /\ pc = "find_glbl"
    /\ LET g == find_xilinx_glbl(environ, existing)
       IN  IF InMain
           THEN /\ loc' = ("glbl_path" :> g) @@ loc
                /\ pc' = "add_glbl"
                /\ UNCHANGED ret
           ELSE /\ ret' = [raised |-> FALSE, value |-> g]
                /\ pc' = "returned"
                /\ UNCHANGED loc
    /\ UNCHANGED <<tree, environ, existing, sys_argv, script_dir, framework,
                   call, vu, stdout, exit_status, prev>>

not_found_warning ==
    << "Warning: Xilinx glbl.v not found!",
       "   Please ensure Xilinx Vivado is installed and/or set XILINX_VIVADO environment variable",
       "   Example: setx XILINX_VIVADO \"C:\\\\Xilinx\\\\Vivado\\\\2023.2\"",
       "   Or manually copy glbl.v to your project directory" >>

\* Mutant of AddGlbl: no try/except around lib.add_source_file.
AddGlbl_unguarded ==
    /\ pc = "add_glbl"
    /\ IF Truthy(loc.glbl_path)
       THEN IF framework.add_source_file_raises
            THEN /\ vu' = Append(vu, Call("add_source_file", "", "raised", <<loc.glbl_path.str>>, FALSE))
                 /\ ret' = [raised |-> TRUE, value |-> "error"]
                 /\ pc' = "raised"
                 /\ UNCHANGED stdout
            ELSE /\ vu' = Append(vu, Call("add_source_file", "", "str", <<loc.glbl_path.str>>, FALSE))
                 /\ stdout' = Append(stdout, "Added Xilinx glbl module from: " \o loc.glbl_path.str)
                 /\ pc' = "compile_opts"
                 /\ UNCHANGED ret
       ELSE /\ stdout' = stdout \o not_found_warning
            /\ pc' = "compile_opts"
            /\ UNCHANGED <<vu, ret>>
    /\ UNCHANGED <<tree, environ, existing, sys_argv, script_dir, framework,
                   call, loc, exit_status, prev>>

\* if glbl_path: try lib.add_source_file(glbl_path) except Exception: warn;
\* else: warn that glbl.v was not found.  A call that raised is logged with
\* kind "raised": it added nothing.
AddGlbl ==
    /\ pc = "add_glbl"
    /\ IF Truthy(loc.glbl_path)
       THEN IF framework.add_source_file_raises
            THEN /\ vu' = Append(vu, Call("add_source_file", "", "raised", <<loc.glbl_path.str>>, FALSE))
                 /\ stdout' = Append(stdout, "Warning: Could not add glbl module: " \o "error")
            ELSE /\ vu' = Append(vu, Call("add_source_file", "", "str", <<loc.glbl_path.str>>, FALSE))
                 /\ stdout' = Append(stdout, "Added Xilinx glbl module from: " \o loc.glbl_path.str)
       ELSE /\ stdout' = stdout \o not_found_warning
            /\ UNCHANGED vu
    /\ pc' = "compile_opts"
    /\ UNCHANGED <<tree, environ, existing, sys_argv, script_dir, framework,
                   call, ret, loc, exit_status, prev>>

\* configure_compile_options, whole.
ConfigureCompile ==
    /\ pc = "compile_opts"
    /\ vu' = vu \o compile_option_calls(call.use_xilinx_libs, call.use_intel_altera_libs)
    /\ pc' = "sim_opts"
    /\ UNCHANGED <<tree, environ, existing, sys_argv, script_dir, framework,
                   call, ret, loc, stdout, exit_status, prev>>

\* Mutant of ConfigureSim: "glbl" is a top level only if glbl.v was added.
ConfigureSim_glbl_if_added ==
    /\ pc = "sim_opts"
    /\ LET calls == simulation_option_calls(environ, script_dir, call.timeout_ms,
                        call.use_xilinx_libs, call.use_intel_altera_libs)
           added == \E k \in 1..Len(vu) :
                        vu[k].op = "add_source_file" /\ vu[k].kind # "raised"
       IN  vu' = vu \o
                 [k \in 1..Len(calls) |->
                     IF calls[k].key = "modelsim.vsim_flags" /\ ~added
                     THEN [calls[k] EXCEPT !.val = SelectSeq(@, LAMBDA f : f # "glbl")]
                     ELSE calls[k]]
    /\ pc' = IF InMain THEN "vu_main" ELSE "returned"
    /\ UNCHANGED <<tree, environ, existing, sys_argv, script_dir, framework,
                   call, ret, loc, stdout, exit_status, prev>>

\* configure_simulation_options, whole.
ConfigureSim ==
    /\ pc = "sim_opts"
    /\ vu' = vu \o simulation_option_calls(environ, script_dir, call.timeout_ms,
                      call.use_xilinx_libs, call.use_intel_altera_libs)
    /\ pc' = IF InMain THEN "vu_main" ELSE "returned"
    /\ UNCHANGED <<tree, environ, existing, sys_argv, script_dir, framework,
                   call, ret, loc, stdout, exit_status, prev>>

\* try: vu.main() except SystemExit as exception: return exception.code
\* return 0
VuMain ==
    /\ pc = "vu_main"
    /\ vu' = Append(vu, Call("main", "", "none", <<>>, FALSE))
    /\ ret' = [raised |-> FALSE,
               value  |-> IF framework.main_exit = <<>> THEN 0
                          ELSE framework.main_exit[1]]
    /\ pc' = "returned"
    /\ UNCHANGED <<tree, environ, existing, sys_argv, script_dir, framework,
                   call, loc, stdout, exit_status, prev>>

\* if __name__ == "__main__": main()   -- the value main returned is dropped,
\* the module ends and the interpreter exits with status 0.
ScriptExit ==
    /\ pc = "returned" /\ InMain /\ call.as_script
    /\ exit_status' = <<0>>
    /\ pc' = "exited"
    /\ UNCHANGED <<tree, environ, existing, sys_argv, script_dir, framework,
                   call, ret, loc, vu, stdout, prev>>

\* The caller configures a second, fresh project with the same arguments,
\* in an environment that may have changed in between.
Reconfigure ==
    /\ pc = "returned" /\ call.fn = "configure" /\ prev = <<>>
    /\ prev' = <<[environ |-> environ, script_dir |-> script_dir, vu |-> vu]>>
    /\ environ' \in {NoEnv} \cup {"VUNIT_MODELSIM_PATH" :> m : m \in ModelsimPathChoices}
    /\ script_dir' \in ScriptDirChoices
    /\ vu' = <<>>
    /\ pc' = "compile_opts"
    /\ UNCHANGED <<tree, existing, sys_argv, framework, call, ret, loc, stdout,
                   exit_status>>

Next ==
    \/ Setup
    \/ AddLibrary
    \/ Discover
    \/ AddSourceFiles
    \/ FindGlbl
    \/ AddGlbl
    \/ ConfigureCompile
    \/ ConfigureSim
    \/ VuMain
    \/ ScriptExit
    \/ Reconfigure

Spec == Init /\ [][Next]_vars

(***************************************************************************)
(* Vocabulary of the properties, stated without the operators above.       *)
(***************************************************************************)

\* name ends with e: some tail of name is e.
HasSuffix(name, e) == \E n \in 0..Len(name) : SubSeq(name, n + 1, Len(name)) = e

\* sub occurs somewhere in name.
Occurs(sub, name) ==
    \E i \in 0..Len(name) : \E j \in i..Len(name) : SubSeq(name, i + 1, j) = sub

IsPrefix(p, d) == Len(p) <= Len(d) /\ SubSeq(d, 1, Len(p)) = p

\* The directories the traversal lists: readable, and so is everything above.
Reached(d) == \A p \in DOMAIN tree : IsPrefix(p, d) => tree[p].ok

\* The directories the traversal asks the filesystem for and is refused.
Refused(d) == ~tree[d].ok /\ \A p \in DOMAIN tree \ {d} : IsPrefix(p, d) => tree[p].ok

\* The matching rule of the specification.
Matches(name) ==
    /\ \E e \in Range(call.extensions) : HasSuffix(name, e)
    /\ ~Occurs(call.ignore_pattern, name)
    /\ name \notin Range(call.excluded_list)

DiscoverReturned == call.fn = "discover_hdl_files" /\ pc = "returned"

HasCall(op, key) == \E k \in 1..Len(vu) : vu[k].op = op /\ vu[k].key = key

\* The list handed to set_sim_option("modelsim.vsim_flags", ...).
VsimFlags == vu[CHOOSE k \in 1..Len(vu) : vu[k].key = "modelsim.vsim_flags"].val

Finished == pc \in {"returned", "exited"}

(***************************************************************************)
(* Properties                                                              *)
(***************************************************************************)

\* C1: discover_hdl_files returns the path of a file of the traversed tree
\* exactly when its name ends with one of the extensions, does not contain
\* ignore_pattern and is not in excluded_list, and returns nothing else; on the
\* example tree with (".vhd", ".vhdl") and [skip.vhd] it returns a.vhd, b.vhdl.
C1_MatchingRule ==
    DiscoverReturned =>
        /\ ~ret.raised
        /\ \A d \in DOMAIN tree : Reached(d) =>
              \A name \in tree[d].files :
                  (join(d, name) \in Range(ret.value)) <=> Matches(name)
        /\ \A q \in Range(ret.value) :
              \E d \in DOMAIN tree : Reached(d) /\
                  \E name \in tree[d].files : q = join(d, name)
        /\ ( /\ tree = ExampleTree
             /\ call.extensions = <<dot_vhd, dot_vhdl>>
             /\ call.ignore_pattern = tilde
             /\ call.excluded_list = <<skip_vhd>> )
           => Range(ret.value) = {join(Root, a_vhd), join(Root, b_vhdl)}

C1_Witness ==
    /\ DiscoverReturned
    /\ tree = ExampleTree
    /\ call.extensions = <<dot_vhd, dot_vhdl>>
    /\ call.ignore_pattern = tilde
    /\ call.excluded_list = <<skip_vhd>>
    /\ Range(ret.value) = {join(Root, a_vhd), join(Root, b_vhdl)}

FindGlblReturned == call.fn = "find_xilinx_glbl" /\ pc = "returned"

\* The first path of common_paths that exists, in the listed order, or None.
FirstCommon(v) ==
    \/ \E k \in 1..Len(common_paths) :
          /\ common_paths[k] \in existing
          /\ \A j \in 1..(k - 1) : common_paths[j] \notin existing
          /\ v = Str(common_paths[k])
    \/ (\A k \in 1..Len(common_paths) : common_paths[k] \notin existing) /\ v = None

\* The lookup rule, given when the variable counts as set.
GlblRule(counts_as_set) ==
    LET derived == glbl_under(environ["XILINX_VIVADO"].str)
        candidates == Range(common_paths) \cup (IF counts_as_set THEN {derived} ELSE {})
    IN  /\ IF counts_as_set /\ derived \in existing
           THEN ret.value = Str(derived)
           ELSE FirstCommon(ret.value)
        /\ ret.value = None <=> candidates \cap existing = {}

\* C2 as stated: the derived path is returned whenever XILINX_VIVADO is set
\* (to anything, the empty string included) and the path exists.
C2_AsStated ==
    FindGlblReturned => GlblRule("XILINX_VIVADO" \in DOMAIN environ)

\* C2: find_xilinx_glbl returns <value>/data/verilog/src/glbl.v whenever
\* XILINX_VIVADO is set to a non-empty value and that path exists; otherwise the
\* first existing path of the hardcoded list in its order; None exactly when no
\* candidate exists.
C2_GlblLookup ==
    FindGlblReturned =>
        GlblRule("XILINX_VIVADO" \in DOMAIN environ /\ environ["XILINX_VIVADO"] # Str(""))

C2_Witness ==
    /\ FindGlblReturned
    /\ "XILINX_VIVADO" \in DOMAIN environ
    /\ environ["XILINX_VIVADO"] = Str("/tools/Vivado")
    /\ glbl_under("/tools/Vivado") \in existing
    /\ common_paths[1] \in existing
    /\ ret.value = Str(glbl_under("/tools/Vivado"))

\* C3: run as a script, the process exits with the code vu.main() raised as
\* SystemExit.
C3_ExitCodePropagates ==
    (pc = "exited" /\ framework.main_exit # <<>>) => exit_status = framework.main_exit

GlblNotAdded ==
    /\ "glbl_path" \in DOMAIN loc
    /\ ~Truthy(loc.glbl_path) \/ framework.add_source_file_raises

\* C4: in main with use_xilinx_libs, when adding glbl.v raises, or glbl.v is
\* not found, a warning is printed and main goes on: it never ends by that
\* exception, and it ends having made the compile option, simulation option
\* and vu.main() calls that follow a successful add.
C4_GuardedAdd ==
    (InMain /\ call.use_xilinx_libs /\ GlblNotAdded) =>
        /\ pc # "raised"
        /\ pc # "add_glbl" =>
              IF Truthy(loc.glbl_path)
              THEN "Warning: Could not add glbl module: error" \in Range(stdout)
              ELSE "Warning: Xilinx glbl.v not found!" \in Range(stdout)
        /\ Finished =>
              LET n == Len(vu)
                  after == compile_option_calls(TRUE, call.use_intel_altera_libs)
                           \o simulation_option_calls(environ, script_dir,
                                  call.timeout_ms, TRUE, call.use_intel_altera_libs)
                           \o <<Call("main", "", "none", <<>>, FALSE)>>
              IN  /\ n >= Len(after)
                  /\ SubSeq(vu, n - Len(after) + 1, n) = after

C4_Witness ==
    /\ InMain /\ call.use_xilinx_libs /\ Finished
    /\ Truthy(loc.glbl_path) /\ framework.add_source_file_raises
    /\ HasCall("main", "")

UnreadableTraversed == \E d \in DOMAIN tree : Refused(d)

\* C5: discover_hdl_files has no failure handling of its own: when the
\* filesystem reports an error for an unreadable directory during the
\* traversal, the call fails with that error instead of returning a partial
\* or empty list.
C5_ErrorPropagates ==
    (call.fn = "discover_hdl_files" /\ pc # "discover" /\ UnreadableTraversed)
        => ret.raised

\* The failing case of C5: the traversal met an unreadable directory holding
\* a matching file, and the call returned the partial list without it.
C5_Witness ==
    /\ DiscoverReturned
    /\ SubD \in DOMAIN tree
    /\ Refused(SubD)
    /\ a_vhd \in tree[SubD].files
    /\ ret.value = <<join(Root, a_vhd)>>

CountCalls(op) == Cardinality({k \in 1..Len(vu) : vu[k].op = op})

\* C6 as stated: the source files are discovered before the framework project
\* is built.
C6_AsStated ==
    (InMain /\ HasCall("from_argv", "argv")) => "source_files" \in DOMAIN loc

\* C6: main builds the framework project (setup_vunit_environment, then
\* add_library), then discovers the source files and adds them, then configures
\* compile and simulation options, then calls vu.main(): each step finds the
\* earlier ones complete, and vu.main() is called once, last.
C6_LinearOrder ==
    InMain =>
        /\ "source_files" \in DOMAIN loc =>
              /\ HasCall("from_argv", "argv") /\ HasCall("add_osvvm", "")
              /\ HasCall("add_library", "vunit_library")
        /\ HasCall("add_source_files", "") => "source_files" \in DOMAIN loc
        /\ HasCall("set_compile_option", "nvc.a_flags") => HasCall("add_source_files", "")
        /\ HasCall("set_generic", "SIMULATION_TIMEOUT_IN_MS") =>
              HasCall("set_compile_option", "nvc.a_flags")
        /\ HasCall("main", "") =>
              /\ HasCall("set_sim_option", "modelsim.init_file.gui")
              /\ vu[Len(vu)].op = "main"
              /\ CountCalls("main") = 1
        /\ Finished => HasCall("main", "")

C6_Witness ==
    /\ InMain /\ pc = "returned"
    /\ Len(loc.source_files) = 2
    /\ vu[1].op = "from_argv"
    /\ vu[Len(vu)].op = "main"

\* seq when cond, nothing otherwise.
When(cond, seq) == IF cond THEN seq ELSE <<>>

\* C7: the list handed to VUnit.from_argv is sys.argv without the program name,
\* then "-p", "1", then the pattern when it is not "**", "--gui" when
\* gui_enabled, "--compile" when compile_only, "--clean" when clean_run,
\* "--log-level=debug" when debug, "--xunit-xml", <path> when xunit_xml is
\* non-empty: nothing else, nothing dropped, nothing reordered.
C7_ForwardedArgs ==
    (call.fn = "setup_vunit_environment" /\ pc = "returned") =>
        LET args == vu[1].val
            n == IF Len(sys_argv) = 0 THEN 0 ELSE Len(sys_argv) - 1
        IN  /\ vu[1].op = "from_argv"
            /\ Len(args) >= n + 2
            /\ \A k \in 1..n : args[k] = sys_argv[k + 1]
            /\ args[n + 1] = "-p" /\ args[n + 2] = "1"
            /\ SubSeq(args, n + 3, Len(args)) =
                  When(call.testbench_glob # "**", <<call.testbench_glob>>)
                  \o When(call.gui_enabled, <<"--gui">>)
                  \o When(call.compile_only, <<"--compile">>)
                  \o When(call.clean_run, <<"--clean">>)
                  \o When(call.debug, <<"--log-level=debug">>)
                  \o When(call.xunit_xml \notin {None, Str("")},
                          <<"--xunit-xml", call.xunit_xml.str>>)

C7_Witness ==
    /\ call.fn = "setup_vunit_environment" /\ pc = "returned"
    /\ sys_argv = <<"run.py", "-v", "lib.tb_a*">>
    /\ vu[1].val = <<"-v", "lib.tb_a*", "-p", "1", "tb_*", "--gui", "--compile",
                     "--clean", "--log-level=debug", "--xunit-xml", "out.xml">>

SecondRunDone == call.fn = "configure" /\ pc = "returned" /\ prev # <<>>

\* C8 as stated: two runs of the two configure functions with the same
\* (timeout_ms, use_xilinx_libs, use_intel_altera_libs) make the same calls
\* whatever else the environment holds (here: whatever the environment
\* variables hold, the script file staying where it is).
C8_AsStated ==
    (SecondRunDone /\ script_dir = prev[1].script_dir) => vu = prev[1].vu

\* VUNIT_MODELSIM_PATH names a questa_base installation.
NamesQuesta(env) ==
    "VUNIT_MODELSIM_PATH" \in DOMAIN env /\ Occurs(questa_base, env["VUNIT_MODELSIM_PATH"])

\* C8: two runs of the two configure functions with the same (timeout_ms,
\* use_xilinx_libs, use_intel_altera_libs) make the same calls, with the same
\* keys and values, provided the two environments agree on whether
\* VUNIT_MODELSIM_PATH contains "questa_base" and on the script's directory;
\* and no run ends by an error.
C8_Deterministic ==
    /\ call.fn = "configure" => pc # "raised"
    /\ ( /\ SecondRunDone
         /\ NamesQuesta(environ) <=> NamesQuesta(prev[1].environ)
         /\ script_dir = prev[1].script_dir )
       => vu = prev[1].vu

C8_Witness ==
    /\ SecondRunDone
    /\ environ # prev[1].environ
    /\ NamesQuesta(environ) /\ NamesQuesta(prev[1].environ)
    /\ script_dir = prev[1].script_dir
    /\ call.use_xilinx_libs /\ call.use_intel_altera_libs
    /\ vu = prev[1].vu

\* C9: on a root directory that holds no files, discover_hdl_files returns the
\* empty list, whatever the extensions, ignore_pattern and excluded_list.
C9_EmptyRoot ==
    (DiscoverReturned /\ \A d \in DOMAIN tree : tree[d].files = {}) =>
        ~ret.raised /\ ret.value = <<>>

C9_Witness ==
    /\ DiscoverReturned
    /\ tree = EmptyRoot
    /\ call.extensions = <<dot_vhd, dot_vhdl, dot_v>>
    /\ ret.value = <<>>

\* glbl.v was added to the library: a call of add_source_file that returned.
GlblAdded == \E k \in 1..Len(vu) : vu[k].op = "add_source_file" /\ vu[k].kind # "raised"

\* C10: in main, modelsim.vsim_flags holds "glbl" exactly when use_xilinx_libs
\* is true, whether or not glbl.v was found or added.
C10_GlblFlag ==
    (InMain /\ HasCall("set_sim_option", "modelsim.vsim_flags")) =>
        ("glbl" \in Range(VsimFlags) <=> call.use_xilinx_libs)

\* "glbl" is a simulation top level and no glbl source is in the library.
C10_Witness ==
    /\ InMain /\ pc = "returned"
    /\ "glbl" \in Range(VsimFlags)
    /\ ~GlblAdded
    /\ framework.add_source_file_raises /\ Truthy(loc.glbl_path)

====
